---- MODULE Spec2Model ----
(***************************************************************************)
(* Model of the account layer of elusiv:                                   *)
(*   src/src/processor/accounts.rs   opening PDA accounts, validating and  *)
(*                                   binding the sub-accounts of a         *)
(*                                   multi-account container               *)
(*   src/src/state/program_account.rs  PDA seeds                           *)
(* Every operator that models a function of the source keeps its name and  *)
(* returns what the function returns; every action applies one entry point *)
(* to the stored state.                                                    *)
(***************************************************************************)
EXTENDS Integers, Sequences, FiniteSets, TLC

(***************************************************************************)
(* Bounds.  The source values of the three StorageAccount constants live   *)
(* in state/storage.rs (7 sub-accounts, two large sizes); the model keeps  *)
(* their roles and scales them down.                                       *)
(***************************************************************************)
\* StorageAccount::COUNT, scaled (accounts.rs:117 speaks of 7 sub-accounts)
StorageAccount_COUNT == 3
\* HeterogenMultiAccountAccount::INTERMEDIARY_ACCOUNT_SIZE, scaled to bytes
INTERMEDIARY_ACCOUNT_SIZE == 2
\* HeterogenMultiAccountAccount::LAST_ACCOUNT_SIZE, scaled to bytes
LAST_ACCOUNT_SIZE == 1
\* largest byte value kept in account data
MaxByte == 1
\* number of writes to sub-account or PDA contents in one behaviour
MaxWrites == 1
\* largest pda_offset handed to open_multi_instance_account
MaxOffset == 1
\* number of program derived accounts created in one behaviour
MaxOpens == 2
\* largest BigArrayAccount::SIZE (number of elements of the array)
MaxSize == 4
\* largest T::SIZE (bytes of one serialized element)
MaxW == 2
\* largest size of one array account, in bytes (the source fixes MAX_ACCOUNT_SIZE)
MaxAccountSize == 4
\* number of set invocations on the array in one behaviour
MaxSets == 2
\* largest total_rounds of a computation
MaxRounds == 2
\* number of fee payers
MaxPayer == 2
\* number of computations started in one behaviour
MaxStarts == 2
\* number of multi-round operations that use one record
MaxOperation == 2
\* largest fee version
MaxFeeVersion == 2
\* const MAX_ACCOUNT_SIZE
MAX_ACCOUNT_SIZE == 10000000

VARIABLES
    COUNT,      \* T::COUNT of the container type T the accounts belong to
    account,    \* the container: [pubkeys, pda_initialized]
    units,      \* externally supplied accounts: key -> [data, lamports, owner]
    pdas,       \* program derived accounts: key -> NoUnit or [data, lamports, owner]
    writes,     \* number of content writes so far
    call,       \* history: the last invocation, [op, ...what its inputs were like]
    result,     \* the ProgramResult of the last invocation: [ok, err, check]
    supplied,   \* history: the accounts handed to the bind that succeeded
    array,      \* a BigArrayAccount: [SIZE, W, MAX, accounts], accounts: index -> data
    shadow,     \* history: the value last set at each index of the array (NoValue: never set)
    tracker,    \* a PartialComputationAccount: [is_active, round, total_rounds, fee_payer]
    hist        \* history of the tracker: [advances, started, reimbursed, owner]

arrayVars == <<array, shadow>>
trackerVars == <<tracker, hist>>
vars == <<COUNT, account, units, pdas, writes, call, result, supplied, arrayVars, trackerVars>>

(***************************************************************************)
(* Values                                                                  *)
(***************************************************************************)
ProgramId == "elusiv"
SystemProgram == "system"
Owners == {ProgramId, SystemProgram}

Bytes == 0..MaxByte
NoKey == 0

\* no array, and a computation account on which nothing has been started
NoArray == [SIZE |-> 0, W |-> 1, MAX |-> 1, accounts |-> <<>>]
IdleTracker == [is_active |-> FALSE, round |-> 0, total_rounds |-> 0, fee_payer |-> NoKey]
NoHist == [advances |-> 0, started |-> <<>>, reimbursed |-> <<>>, owner |-> 0]
Addr == 1..StorageAccount_COUNT

\* the container types T: one with StorageAccount's child count, one with fewer, one with more
ContainerCounts == {StorageAccount_COUNT - 1, StorageAccount_COUNT, StorageAccount_COUNT + 1}

\* capacities an externally supplied account may have
Sizes == {LAST_ACCOUNT_SIZE - 1, LAST_ACCOUNT_SIZE, INTERMEDIARY_ACCOUNT_SIZE}

ByteSeqs(n) == [1..n -> Bytes]
Zeroed(n) == [i \in 1..n |-> 0]

\* ProgramResult; check names the guard that rejected
Ok == [ok |-> TRUE, err |-> "Ok", check |-> "none"]
Err(e, c) == [ok |-> FALSE, err |-> e, check |-> c]
InvalidInstructionData == "InvalidInstructionData"
InvalidStorageAccountSize == "InvalidStorageAccountSize"

(***************************************************************************)
(* Validation of externally supplied accounts                              *)
(***************************************************************************)
\* Rent::minimum_balance(data_len): grows with the size (scaled)
minimum_balance(data_len) == data_len + 1

\* crate::bytes::is_zero
is_zero(data) == \A i \in DOMAIN data : data[i] = 0

data_len(a) == Len(a.data)

\* verify_extern_data_account without the ownership guard
verify_extern_data_account_no_owner(a, len, check_zeroness) ==
    IF data_len(a) # len THEN Err(InvalidInstructionData, "size")
    ELSE IF check_zeroness /\ ~is_zero(a.data) THEN Err(InvalidInstructionData, "zero")
    ELSE IF a.lamports < minimum_balance(len) THEN Err(InvalidInstructionData, "rent")
    ELSE Ok

\* verify_extern_data_account checking zeroness whatever the flag says
verify_extern_data_account_always_zero(a, len, check_zeroness) ==
    IF data_len(a) # len THEN Err(InvalidInstructionData, "size")
    ELSE IF ~is_zero(a.data) THEN Err(InvalidInstructionData, "zero")
    ELSE IF a.lamports < minimum_balance(len) THEN Err(InvalidInstructionData, "rent")
    ELSE IF a.owner # ProgramId THEN Err(InvalidInstructionData, "owner")
    ELSE Ok

\* verify_extern_data_account reporting a size mismatch as InvalidStorageAccountSize
verify_extern_data_account_size_error(a, len, check_zeroness) ==
    IF data_len(a) # len THEN Err(InvalidStorageAccountSize, "size")
    ELSE IF check_zeroness /\ ~is_zero(a.data) THEN Err(InvalidInstructionData, "zero")
    ELSE IF a.lamports < minimum_balance(len) THEN Err(InvalidInstructionData, "rent")
    ELSE IF a.owner # ProgramId THEN Err(InvalidInstructionData, "owner")
    ELSE Ok

verify_extern_data_account(a, len, check_zeroness) ==
    IF data_len(a) # len THEN Err(InvalidInstructionData, "size")
    ELSE IF check_zeroness /\ ~is_zero(a.data) THEN Err(InvalidInstructionData, "zero")
    ELSE IF a.lamports < minimum_balance(len) THEN Err(InvalidInstructionData, "rent")
    ELSE IF a.owner # ProgramId THEN Err(InvalidInstructionData, "owner")
    ELSE Ok

\* expected_size with the last child taken for an intermediary one
expected_size_off_by_one(n, i) ==
    IF i < n THEN INTERMEDIARY_ACCOUNT_SIZE ELSE LAST_ACCOUNT_SIZE

\* the size child i of a container with n children is checked against
expected_size(n, i) ==
    IF i < n - 1 THEN INTERMEDIARY_ACCOUNT_SIZE ELSE LAST_ACCOUNT_SIZE

\* the loop of verify_heterogen_sub_accounts from child i on: the first error ends it
RECURSIVE verify_from(_, _, _, _)
verify_from(n, accs, check_zeroness, i) ==
    IF i >= n THEN Ok
    ELSE LET r == verify_extern_data_account(units[accs[i]], expected_size(n, i), check_zeroness)
         IN IF ~r.ok THEN r ELSE verify_from(n, accs, check_zeroness, i + 1)

verify_heterogen_sub_accounts(n, accs, check_zeroness) ==
    verify_from(n, accs, check_zeroness, 0)

(***************************************************************************)
(* Binding the sub-accounts                                                *)
(***************************************************************************)
\* setup_multi_account_account with the pubkeys written before the pda_initialized guard
setup_multi_account_account_write_first(n, acc, accs) ==
    LET pks == [i \in 0..(n - 1) |-> accs[i]]
        a1 == [acc EXCEPT !.pubkeys = pks]
        set == {a1.pubkeys[i] : i \in 0..(n - 1)}
    IN IF acc.pda_initialized
       THEN [res |-> Err(InvalidInstructionData, "initialized"), account |-> a1]
       ELSE IF Cardinality(set) # StorageAccount_COUNT
            THEN [res |-> Err(InvalidInstructionData, "duplicate"), account |-> a1]
            ELSE [res |-> Ok, account |-> [a1 EXCEPT !.pda_initialized = TRUE]]

\* returns the ProgramResult and the container as the function leaves it;
\* the duplicate guard compares with StorageAccount::COUNT, whatever T::COUNT is
setup_multi_account_account(n, acc, accs) ==
    IF acc.pda_initialized
    THEN [res |-> Err(InvalidInstructionData, "initialized"), account |-> acc]
    ELSE LET pks == [i \in 0..(n - 1) |-> accs[i]]
             a1 == [acc EXCEPT !.pubkeys = pks]
             set == {a1.pubkeys[i] : i \in 0..(n - 1)}
         IN IF Cardinality(set) # StorageAccount_COUNT
            THEN [res |-> Err(InvalidInstructionData, "duplicate"), account |-> a1]
            ELSE LET a2 == [a1 EXCEPT !.pda_initialized = TRUE]
                 IN IF ~a2.pda_initialized
                    THEN [res |-> Err(InvalidInstructionData, "not_set"), account |-> a2]
                    ELSE [res |-> Ok, account |-> a2]

\* setup_storage_account binding first and validating afterwards
setup_storage_account_bind_first(n, acc, accs) ==
    LET b == setup_multi_account_account(n, acc, accs)
        v == verify_heterogen_sub_accounts(n, accs, FALSE)
    IN IF ~b.res.ok THEN b
       ELSE IF ~v.ok THEN [res |-> v, account |-> b.account]
       ELSE b

\* setup_storage_account, read for a container type of n sub-accounts: the
\* source instantiates the two generic functions it calls for StorageAccount
\* (n = StorageAccount_COUNT); the other values of n are the instantiations
\* their signatures admit (T: MultiAccountAccount, T: HeterogenMultiAccountAccount)
setup_storage_account(n, acc, accs) ==
    LET v == verify_heterogen_sub_accounts(n, accs, FALSE)
    IN IF ~v.ok THEN [res |-> v, account |-> acc]
       ELSE setup_multi_account_account(n, acc, accs)

\* verify_extern_data_account taking the data with borrow_mut and clearing it
\* for the zero check
verify_extern_data_account_account_cleared(a, len, check_zeroness) ==
    IF check_zeroness /\ data_len(a) = len
    THEN [a EXCEPT !.data = Zeroed(Len(a.data))]
    ELSE a

\* the account as verify_extern_data_account leaves it: data_len(),
\* data.borrow(), lamports() and owner read the AccountInfo, nothing is
\* borrowed mutably
verify_extern_data_account_account(a, len, check_zeroness) == a

\* the ledger as the loop of verify_heterogen_sub_accounts leaves it, from child i on
RECURSIVE accounts_from(_, _, _, _, _)
accounts_from(ledger, n, accs, check_zeroness, i) ==
    IF i >= n THEN ledger
    ELSE LET len == expected_size(n, i)
             after == [ledger EXCEPT ![accs[i]] =
                          verify_extern_data_account_account(@, len, check_zeroness)]
         IN IF ~verify_extern_data_account(ledger[accs[i]], len, check_zeroness).ok
            THEN after
            ELSE accounts_from(after, n, accs, check_zeroness, i + 1)

verify_heterogen_sub_accounts_accounts(ledger, n, accs, check_zeroness) ==
    accounts_from(ledger, n, accs, check_zeroness, 0)

(***************************************************************************)
(* What an invocation's inputs were like (recorded in call)                *)
(***************************************************************************)
Children == [0..(COUNT - 1) -> Addr]

Injective(accs) == \A i, j \in DOMAIN accs : i # j => accs[i] # accs[j]

\* child i of a container with n children has the capacity its position asks for
SizeFits(n, accs, i) ==
    Len(units[accs[i]].data) = (IF i = n - 1 THEN LAST_ACCOUNT_SIZE ELSE INTERMEDIARY_ACCOUNT_SIZE)

\* the account at key a is owned by the program and holds the exemption balance of its size
OwnedAndExempt(a) ==
    /\ units[a].owner = ProgramId
    /\ units[a].lamports >= Len(units[a].data) + 1

HasNonZeroByte(a) == \E k \in 1..Len(units[a].data) : units[a].data[k] # 0

BindCall(accs) ==
    [op |-> "setup_storage_account",
     repeated |-> ~Injective(accs),
     sizes_fit |-> \A i \in 0..(COUNT - 1) : SizeFits(COUNT, accs, i),
     owned_exempt |-> \A i \in 0..(COUNT - 1) : OwnedAndExempt(accs[i])]

HeterogenCall(accs, z) ==
    [op |-> "verify_heterogen_sub_accounts",
     sizes_fit |-> \A i \in 0..(COUNT - 1) : SizeFits(COUNT, accs, i),
     rest_passes |-> \A i \in 0..(COUNT - 1) :
                        OwnedAndExempt(accs[i]) /\ (z => ~HasNonZeroByte(accs[i]))]

ExternCall(a, len, z) ==
    [op |-> "verify_extern_data_account",
     check_zeroness |-> z,
     non_zero |-> HasNonZeroByte(a),
     rest_passes |-> Len(units[a].data) = len /\ OwnedAndExempt(a)]

(***************************************************************************)
(* Initial states: the ledger of externally supplied accounts              *)
(***************************************************************************)
Unit(d, l, o) == [data |-> d, lamports |-> l, owner |-> o]
Pristine(n) == Unit(Zeroed(n), minimum_balance(n), ProgramId)

UnitProfiles ==
    UNION {{Unit(d, l, o) : d \in ByteSeqs(n),
                            l \in {minimum_balance(n) - 1, minimum_balance(n)},
                            o \in Owners} : n \in Sizes}

\* every account but the last is a valid intermediary one, the last a valid last one
CanonicalLedger ==
    [a \in Addr |-> IF a < StorageAccount_COUNT
                    THEN Pristine(INTERMEDIARY_ACCOUNT_SIZE)
                    ELSE Pristine(LAST_ACCOUNT_SIZE)]

EmptyAccount(n) == [pubkeys |-> [i \in 0..(n - 1) |-> NoKey], pda_initialized |-> FALSE]

NoCall == [op |-> "none"]

\* a fresh container of some type over the ledger u, nothing invoked yet
Fresh(u) ==
    /\ COUNT \in ContainerCounts
    /\ account = EmptyAccount(COUNT)
    /\ units = u
    /\ pdas = <<>>
    /\ writes = 0
    /\ call = NoCall
    /\ result = Ok
    /\ supplied = <<>>
    /\ array = NoArray
    /\ shadow = <<>>
    /\ tracker = IdleTracker
    /\ hist = NoHist

\* the canonical ledger with one account replaced by any account at all
InitLedger ==
    \E d \in Addr, p \in UnitProfiles : Fresh([CanonicalLedger EXCEPT ![d] = p])

\* the same with the replacement's data still zeroed, as the system allocates it
InitContainer ==
    \E d \in Addr, p \in UnitProfiles :
        /\ is_zero(p.data)
        /\ Fresh([CanonicalLedger EXCEPT ![d] = p])

(***************************************************************************)
(* Actions on the container and its sub-accounts                           *)
(***************************************************************************)
SetupStorageAccount(accs) ==
    LET r == setup_storage_account(COUNT, account, accs)
    IN /\ account' = r.account
       /\ result' = r.res
       /\ call' = BindCall(accs)
       /\ supplied' = IF r.res.ok THEN accs ELSE supplied
       /\ UNCHANGED <<COUNT, units, pdas, writes>>
       /\ UNCHANGED <<arrayVars, trackerVars>>

VerifyHeterogenSubAccounts(accs, check_zeroness) ==
    /\ result' = verify_heterogen_sub_accounts(COUNT, accs, check_zeroness)
    /\ units' = verify_heterogen_sub_accounts_accounts(units, COUNT, accs, check_zeroness)
    /\ call' = HeterogenCall(accs, check_zeroness)
    /\ UNCHANGED <<COUNT, account, pdas, writes, supplied>>
    /\ UNCHANGED <<arrayVars, trackerVars>>

VerifyExternDataAccount(a, len, check_zeroness) ==
    /\ result' = verify_extern_data_account(units[a], len, check_zeroness)
    /\ units' = [units EXCEPT ![a] =
                    verify_extern_data_account_account(@, len, check_zeroness)]
    /\ call' = ExternCall(a, len, check_zeroness)
    /\ UNCHANGED <<COUNT, account, pdas, writes, supplied>>
    /\ UNCHANGED <<arrayVars, trackerVars>>

\* the program writes one byte of a bound sub-account
WriteChild(i, off, v) ==
    /\ account.pda_initialized
    /\ writes < MaxWrites
    /\ off < data_len(units[account.pubkeys[i]])
    /\ units' = [units EXCEPT ![account.pubkeys[i]].data[off + 1] = v]
    /\ writes' = writes + 1
    /\ call' = [op |-> "write_child"]
    /\ result' = Ok
    /\ UNCHANGED <<COUNT, account, pdas, supplied>>
    /\ UNCHANGED <<arrayVars, trackerVars>>

NextContainer ==
    \/ \E accs \in Children : SetupStorageAccount(accs)
    \/ \E i \in 0..(COUNT - 1), off \in 0..(INTERMEDIARY_ACCOUNT_SIZE - 1), v \in Bytes :
           WriteChild(i, off, v)

\* binding and content writes on one container
SpecContainer == InitContainer /\ [][NextContainer]_vars

NextErrors ==
    \/ \E accs \in Children : SetupStorageAccount(accs)
    \/ \E a \in Addr, len \in Sizes, z \in BOOLEAN : VerifyExternDataAccount(a, len, z)
    \/ \E i \in 0..(COUNT - 1), off \in 0..(INTERMEDIARY_ACCOUNT_SIZE - 1), v \in Bytes :
           WriteChild(i, off, v)

\* binding, validation of single accounts and content writes, over every ledger
SpecErrors == InitLedger /\ [][NextErrors]_vars

NextValidate ==
    /\ call = NoCall
    /\ \/ \E accs \in Children, z \in BOOLEAN : VerifyHeterogenSubAccounts(accs, z)
       \/ \E a \in Addr, len \in Sizes, z \in BOOLEAN : VerifyExternDataAccount(a, len, z)

\* one application of a validator to a ledger: the validators are pure
SpecValidate == InitLedger /\ [][NextValidate]_vars

(***************************************************************************)
(* Opening program derived accounts (processor/accounts.rs, 22-115)        *)
(***************************************************************************)
SingleInstancePDAAccountKind ==
    {"CommitmentHashingAccount", "CommitmentQueueAccount", "PoolAccount",
     "FeeCollectorAccount", "StorageAccount", "NullifierAccount"}
MultiInstancePDAAccountKind == {"BaseCommitmentQueueAccount"}
Offsets == 0..MaxOffset

\* T::SEED: the name of the account type stands for its seed bytes
SEED(kind) == kind
\* T::SIZE
SIZE(kind) == IF kind \in MultiInstancePDAAccountKind THEN 2 ELSE 1

\* PDAAccount::pda_seed: the seed followed by the offsets
pda_seed(kind, offsets) == <<SEED(kind)>> \o offsets

\* T::find: the derived address is identified with the seeds it is derived
\* from (the derivation is a hash, taken to be injective)
find(kind, offsets) == [pk |-> pda_seed(kind, offsets), bump |-> 255]

\* an address no seed of the program derives
OtherKey == <<>>
Keys ==
    {find(k, <<>>).pk : k \in SingleInstancePDAAccountKind}
        \cup {find(k, <<o>>).pk : k \in MultiInstancePDAAccountKind, o \in Offsets}
        \cup {OtherKey}

\* the ledger's view of an address at which no account was created
NoUnit == Unit(<<>>, 0, SystemProgram)
Exists(pd, key) == pd[key] # NoUnit

\* utils::create_pda_account: the system program creates the account, zero
\* filled, rent exempt and owned by the program, unless the address is in use
create_pda_account(pd, key, account_size, bump, signers_seeds) ==
    IF pd[key].lamports > 0 \/ Len(pd[key].data) > 0
    THEN [res |-> Err("AccountAlreadyInUse", "exists"), pdas |-> pd]
    ELSE [res |-> Ok,
          pdas |-> [pd EXCEPT ![key] =
                      Unit(Zeroed(account_size), minimum_balance(account_size), ProgramId)]]

\* open_pda_account_with_offset creating at whatever key it is handed
open_pda_account_with_offset_no_guard(kind, pd, key, pda_offset) ==
    LET f == find(kind, <<pda_offset>>)
        seed == <<SEED(kind), pda_offset, f.bump>>
    IN create_pda_account(pd, key, SIZE(kind), f.bump, seed)

open_pda_account_with_offset(kind, pd, key, pda_offset) ==
    LET f == find(kind, <<pda_offset>>)
        seed == <<SEED(kind), pda_offset, f.bump>>
    IN IF f.pk # key
       THEN [res |-> Err(InvalidInstructionData, "key"), pdas |-> pd]
       ELSE create_pda_account(pd, key, SIZE(kind), f.bump, seed)

\* open_pda_account_without_offset creating at whatever key it is handed
open_pda_account_without_offset_no_guard(kind, pd, key) ==
    LET f == find(kind, <<>>)
        seed == <<SEED(kind), f.bump>>
    IN create_pda_account(pd, key, SIZE(kind), f.bump, seed)

open_pda_account_without_offset(kind, pd, key) ==
    LET f == find(kind, <<>>)
        seed == <<SEED(kind), f.bump>>
    IN IF f.pk # key
       THEN [res |-> Err(InvalidInstructionData, "key"), pdas |-> pd]
       ELSE create_pda_account(pd, key, SIZE(kind), f.bump, seed)

open_single_instance_account(pd, key, kind) ==
    CASE kind = "CommitmentHashingAccount" ->
            open_pda_account_without_offset("CommitmentHashingAccount", pd, key)
      [] kind = "CommitmentQueueAccount" ->
            open_pda_account_without_offset("CommitmentQueueAccount", pd, key)
      [] kind = "PoolAccount" ->
            open_pda_account_without_offset("PoolAccount", pd, key)
      [] kind = "FeeCollectorAccount" ->
            open_pda_account_without_offset("FeeCollectorAccount", pd, key)
      [] kind = "StorageAccount" ->
            open_pda_account_without_offset("StorageAccount", pd, key)
      [] kind = "NullifierAccount" ->
            open_pda_account_without_offset("NullifierAccount", pd, key)

open_multi_instance_account(pd, key, kind, pda_offset) ==
    CASE kind = "BaseCommitmentQueueAccount" ->
            open_pda_account_with_offset("BaseCommitmentQueueAccount", pd, key, pda_offset)

\* what an open invocation is about: whether the account handed in is the
\* derived one, and whether the derived address was in use before it
OpenCall(op, derived, key) ==
    [op |-> op, matches |-> key = derived, existed |-> Exists(pdas, derived)]

\* the invocation creates no account, or fewer than MaxOpens exist so far
WithinMaxOpens(derived, key) ==
    \/ key # derived
    \/ Exists(pdas, derived)
    \/ Cardinality({k \in Keys : Exists(pdas, k)}) < MaxOpens

InitOpen ==
    /\ COUNT = StorageAccount_COUNT
    /\ account = EmptyAccount(COUNT)
    /\ units = CanonicalLedger
    /\ pdas = [k \in Keys |-> NoUnit]
    /\ writes = 0
    /\ call = NoCall
    /\ result = Ok
    /\ supplied = <<>>
    /\ array = NoArray
    /\ shadow = <<>>
    /\ tracker = IdleTracker
    /\ hist = NoHist

OpenSingleInstanceAccount(key, kind) ==
    LET r == open_single_instance_account(pdas, key, kind)
    IN /\ WithinMaxOpens(find(kind, <<>>).pk, key)
       /\ pdas' = r.pdas
       /\ result' = r.res
       /\ call' = OpenCall("open_single_instance_account", find(kind, <<>>).pk, key)
       /\ UNCHANGED <<COUNT, account, units, writes, supplied>>
       /\ UNCHANGED <<arrayVars, trackerVars>>

OpenMultiInstanceAccount(key, kind, pda_offset) ==
    LET r == open_multi_instance_account(pdas, key, kind, pda_offset)
    IN /\ WithinMaxOpens(find(kind, <<pda_offset>>).pk, key)
       /\ pdas' = r.pdas
       /\ result' = r.res
       /\ call' = OpenCall("open_multi_instance_account", find(kind, <<pda_offset>>).pk, key)
       /\ UNCHANGED <<COUNT, account, units, writes, supplied>>
       /\ UNCHANGED <<arrayVars, trackerVars>>

\* the program writes a byte of an account it has opened
WritePda(key, off, v) ==
    /\ Exists(pdas, key)
    /\ writes < MaxWrites
    /\ off < data_len(pdas[key])
    /\ pdas' = [pdas EXCEPT ![key].data[off + 1] = v]
    /\ writes' = writes + 1
    /\ call' = [op |-> "write_pda"]
    /\ result' = Ok
    /\ UNCHANGED <<COUNT, account, units, supplied>>
    /\ UNCHANGED <<arrayVars, trackerVars>>

NextOpen ==
    \/ \E key \in Keys, kind \in SingleInstancePDAAccountKind :
          OpenSingleInstanceAccount(key, kind)
    \/ \E key \in Keys, kind \in MultiInstancePDAAccountKind, o \in Offsets :
          OpenMultiInstanceAccount(key, kind, o)
    \/ \E key \in Keys, off \in 0..1, v \in Bytes : WritePda(key, off, v)

SpecOpen == InitOpen /\ [][NextOpen]_vars


(***************************************************************************)
(* BigArrayAccount (state/program_account.rs, 19-79): an array of SIZE     *)
(* elements of W = T::SIZE bytes, stored in ACCOUNTS_COUNT accounts of at  *)
(* most MAX bytes each.  Indices, offsets and slices are those of the      *)
(* source: zero based, slices half open.                                   *)
(***************************************************************************)
NoValue == -1
Base == MaxByte + 1

\* const MAX_VALUES_PER_ACCOUNT, for an account size max and an element size w
MAX_VALUES_PER_ACCOUNT(max, w) == max \div w

\* ACCOUNTS_COUNT with one account more whatever the remainder
ACCOUNTS_COUNT_plus_one(size, m) == size \div m + 1

\* const ACCOUNTS_COUNT, for size elements, m to the account
ACCOUNTS_COUNT(size, m) == size \div m + (IF size % m = 0 THEN 0 ELSE 1)

ValuesPerAccount(arr) == MAX_VALUES_PER_ACCOUNT(arr.MAX, arr.W)
AccountsCount(arr) == ACCOUNTS_COUNT(arr.SIZE, ValuesPerAccount(arr))

\* account_and_local_index with the local index taken modulo one more
account_and_local_index_skewed(m, index) ==
    LET account_index == index \div m
    IN <<account_index, index % (m + 1)>>

account_and_local_index(m, index) ==
    LET account_index == index \div m
    IN <<account_index, index - account_index * m>>

\* data[from..to] of the source
Slice(data, from, to) == SubSeq(data, from + 1, to)
\* the bytes written over data from offset from on
Overwrite(data, from, bytes) ==
    [k \in 1..Len(data) |->
        IF k > from /\ k <= from + Len(bytes) THEN bytes[k - from] ELSE data[k]]

\* T::write and T::deserialize: the value in W little endian digits
serialize(value, w) == [k \in 1..w |-> (value \div Base^(k - 1)) % Base]
RECURSIVE deserialize(_)
deserialize(bytes) ==
    IF Len(bytes) = 0 THEN 0 ELSE bytes[1] + Base * deserialize(Tail(bytes))

\* account_data: where the slice it returns lies
account_data(arr, index) ==
    LET al == account_and_local_index(ValuesPerAccount(arr), index)
    IN [account |-> al[1], from |-> al[2] * arr.W, to |-> (al[2] + 1) * arr.W]

get(arr, index) ==
    LET d == account_data(arr, index)
    IN deserialize(Slice(arr.accounts[d.account], d.from, d.to))

\* set writing one byte more than the element has
set_spill(arr, index, value) ==
    LET d == account_data(arr, index)
    IN [arr EXCEPT !.accounts[d.account] = Overwrite(@, d.from, serialize(value, arr.W + 1))]

\* set writing one byte only
set_first_byte(arr, index, value) ==
    LET d == account_data(arr, index)
    IN [arr EXCEPT !.accounts[d.account] = Overwrite(@, d.from, <<serialize(value, arr.W)[1]>>)]

set(arr, index, value) ==
    LET d == account_data(arr, index)
    IN [arr EXCEPT !.accounts[d.account] = Overwrite(@, d.from, serialize(value, arr.W))]

RECURSIVE Concat(_, _, _)
\* the data of the accounts i..last, one after the other
Concat(accounts, i, last) ==
    IF i > last THEN <<>> ELSE accounts[i] \o Concat(accounts, i + 1, last)

Panic(c) == [ok |-> FALSE, err |-> "panic", check |-> c, bytes |-> <<>>]
Returned(b) == [ok |-> TRUE, err |-> "Ok", check |-> "none", bytes |-> b]

\* get_mut_array_slice: an index past the accounts and a slice past the data panic
get_mut_array_slice(arr, start_index, end_index) ==
    LET m == ValuesPerAccount(arr)
        s == account_and_local_index(m, start_index)
        e == account_and_local_index(m, end_index)
        data == Concat(arr.accounts, s[1], e[1])
        from == s[2] * arr.W
        to == (e[2] + e[1] * m) * arr.W
    IN IF e[1] >= AccountsCount(arr) THEN Panic("account index")
       ELSE IF from > to \/ to > Len(data) THEN Panic("slice")
       ELSE Returned(Slice(data, from, to))

\* the values set in the model: none, one, and every byte at its largest
Values(w) == {0, 1, Base^w - 1}

\* an array of a layout the constants admit (W <= MAX, or MAX_VALUES_PER_ACCOUNT
\* is zero and ACCOUNTS_COUNT does not evaluate), every account zero filled
NewArray(size, w, max) ==
    [SIZE |-> size, W |-> w, MAX |-> max,
     accounts |-> [a \in 0..(ACCOUNTS_COUNT(size, MAX_VALUES_PER_ACCOUNT(max, w)) - 1) |->
                     Zeroed(MAX_VALUES_PER_ACCOUNT(max, w) * w)]]

InitArray ==
    /\ COUNT = StorageAccount_COUNT
    /\ account = EmptyAccount(COUNT)
    /\ units = CanonicalLedger
    /\ pdas = <<>>
    /\ writes = 0
    /\ call = NoCall
    /\ result = Ok
    /\ supplied = <<>>
    /\ \E size \in 1..MaxSize, w \in 1..MaxW :
         \E max \in w..MaxAccountSize :
            /\ array = NewArray(size, w, max)
            /\ shadow = [i \in 0..(size - 1) |-> NoValue]
    /\ tracker = IdleTracker
    /\ hist = NoHist

notArrayVars == <<COUNT, account, units, pdas, supplied, trackerVars>>

AccountAndLocalIndex(index) ==
    /\ call' = [op |-> "account_and_local_index", index |-> index]
    /\ result' = [ok |-> TRUE, err |-> "Ok", check |-> "none",
                  pair |-> account_and_local_index(ValuesPerAccount(array), index)]
    /\ UNCHANGED <<notArrayVars, array, shadow, writes>>

Get(index) ==
    /\ call' = [op |-> "get", index |-> index]
    /\ result' = [ok |-> TRUE, err |-> "Ok", check |-> "none", value |-> get(array, index)]
    /\ UNCHANGED <<notArrayVars, array, shadow, writes>>

Set(index, value) ==
    /\ writes < MaxSets
    /\ array' = set(array, index, value)
    /\ shadow' = [shadow EXCEPT ![index] = value]
    /\ writes' = writes + 1
    /\ call' = [op |-> "set", index |-> index, value |-> value]
    /\ result' = Ok
    /\ UNCHANGED notArrayVars

GetMutArraySlice(start_index, end_index) ==
    /\ start_index <= end_index
    /\ call' = [op |-> "get_mut_array_slice", start_index |-> start_index, end_index |-> end_index]
    /\ result' = get_mut_array_slice(array, start_index, end_index)
    /\ UNCHANGED <<notArrayVars, array, shadow, writes>>

\* array_accounts_pdas of an array type with seed kind: one derived address for
\* each account, from the seed, the offsets and the index of the account (pda!
\* taken to be injective, as find is)
array_accounts_pdas(kind, n, offsets) ==
    [i \in 0..(n - 1) |-> pda_seed(kind, offsets \o <<i>>)]

ArrayAccountsPdas(offsets) ==
    /\ call' = [op |-> "array_accounts_pdas", offsets |-> offsets]
    /\ result' = [ok |-> TRUE, err |-> "Ok", check |-> "none",
                  pdas |-> array_accounts_pdas("BigArrayAccount", AccountsCount(array), offsets)]
    /\ UNCHANGED <<notArrayVars, array, shadow, writes>>

get_full_array(arr) == get_mut_array_slice(arr, 0, arr.SIZE - 1)

GetFullArray ==
    /\ call' = [op |-> "get_full_array"]
    /\ result' = get_full_array(array)
    /\ UNCHANGED <<notArrayVars, array, shadow, writes>>

NextLayout ==
    \/ \E index \in 0..(array.SIZE - 1) : AccountAndLocalIndex(index)
    \/ \E o \in {<<>>} \cup {<<x>> : x \in Offsets} : ArrayAccountsPdas(o)

\* the layout of the array: where an index lies, how many accounts there are
SpecLayout == InitArray /\ [][NextLayout]_vars

NextArray ==
    \/ \E index \in 0..(array.SIZE - 1) : Get(index)
    \/ \E index \in 0..(array.SIZE - 1), value \in Values(array.W) : Set(index, value)

\* reading and writing single elements
SpecArray == InitArray /\ [][NextArray]_vars

NextRange ==
    \/ \E index \in 0..(array.SIZE - 1), value \in Values(array.W) : Set(index, value)
    \/ \E start_index, end_index \in 0..array.SIZE : GetMutArraySlice(start_index, end_index)

\* reading ranges of elements
SpecRange == InitArray /\ [][NextRange]_vars


NextFull ==
    \/ \E index \in 0..(array.SIZE - 1), value \in Values(array.W) : Set(index, value)
    \/ GetFullArray

\* reading the whole array
SpecFull == InitArray /\ [][NextFull]_vars

(***************************************************************************)
(* Fee accounts: init_new_fee_version (processor/accounts.rs, 142-165)     *)
(***************************************************************************)
FeeVersions == 0..MaxFeeVersion
GovernorKey == find("GovernorAccount", <<>>).pk
FeeKey(fee_version) == find("FeeAccount", <<fee_version>>).pk
FeeKeys == {FeeKey(v) : v \in FeeVersions} \cup {OtherKey}

\* the fee values of an invocation, as the bytes FeeAccount::setup stores
FeeValues == ByteSeqs(SIZE("FeeAccount"))

\* GovernorAccount::get_fee_version: the version stored in the governor account
get_fee_version(pd) == pd[GovernorKey].data[1]

\* FeeAccount::new over the data of the account, then FeeAccount::setup
setup(pd, key, fees) == [pd EXCEPT ![key].data = fees]

\* init_new_fee_version without the guard on the governor's fee version
init_new_fee_version_any_version(pd, key, fee_version, fees) ==
    LET o == open_pda_account_with_offset("FeeAccount", pd, key, fee_version)
    IN IF ~o.res.ok THEN o
       ELSE [res |-> Ok, pdas |-> setup(o.pdas, key, fees)]

init_new_fee_version(pd, key, fee_version, fees) ==
    IF fee_version # get_fee_version(pd)
    THEN [res |-> Err("InvalidFeeVersion", "fee_version"), pdas |-> pd]
    ELSE LET o == open_pda_account_with_offset("FeeAccount", pd, key, fee_version)
         IN IF ~o.res.ok THEN o
            ELSE [res |-> Ok, pdas |-> setup(o.pdas, key, fees)]

InitFee ==
    /\ COUNT = StorageAccount_COUNT
    /\ account = EmptyAccount(COUNT)
    /\ units = CanonicalLedger
    /\ \E v \in FeeVersions :
          pdas = [k \in FeeKeys \cup {GovernorKey} |->
                     IF k = GovernorKey
                     THEN Unit(<<v>>, minimum_balance(1), ProgramId)
                     ELSE NoUnit]
    /\ writes = 0
    /\ call = NoCall
    /\ result = Ok
    /\ supplied = <<>>
    /\ array = NoArray
    /\ shadow = <<>>
    /\ tracker = IdleTracker
    /\ hist = NoHist

InitNewFeeVersion(key, fee_version, fees) ==
    LET r == init_new_fee_version(pdas, key, fee_version, fees)
    IN /\ pdas' = r.pdas
       /\ result' = r.res
       /\ call' = [op |-> "init_new_fee_version",
                   fee_version |-> fee_version,
                   current |-> fee_version = get_fee_version(pdas),
                   matches |-> key = FeeKey(fee_version),
                   existed |-> Exists(pdas, FeeKey(fee_version))]
       /\ UNCHANGED <<COUNT, account, units, writes, supplied>>
       /\ UNCHANGED <<arrayVars, trackerVars>>

\* the governor moves on to the next fee version
SetFeeVersion ==
    /\ get_fee_version(pdas) < MaxFeeVersion
    /\ pdas' = [pdas EXCEPT ![GovernorKey].data[1] = @ + 1]
    /\ call' = [op |-> "set_fee_version"]
    /\ result' = Ok
    /\ UNCHANGED <<COUNT, account, units, writes, supplied>>
    /\ UNCHANGED <<arrayVars, trackerVars>>

NextFee ==
    \/ \E key \in FeeKeys, fee_version \in FeeVersions, fees \in FeeValues :
          InitNewFeeVersion(key, fee_version, fees)
    \/ SetFeeVersion

SpecFee == InitFee /\ [][NextFee]_vars

(***************************************************************************)
(* PartialComputationAccount (state/program_account.rs, 81-98).  The       *)
(* source declares the four fields and their accessors; the operations on  *)
(* them are those of the resumable computation tracker: start, advance,    *)
(* is_complete, finalize.                                                  *)
(***************************************************************************)
Payers == 1..MaxPayer

\* the outcome of an operation: its result, the account as it leaves it, and
\* the fee payer it asks to have reimbursed (NoKey: nobody)
Outcome(res, t, payer) == [res |-> res, tracker |-> t, reimburse |-> payer]

\* start that does not look at is_active
start_no_guard(t, total_rounds, fee_payer) ==
    Outcome(Ok, [is_active |-> TRUE, round |-> 0,
                 total_rounds |-> total_rounds, fee_payer |-> fee_payer], NoKey)

\* start that leaves the round where it was
start_keep_round(t, total_rounds, fee_payer) ==
    IF t.is_active THEN Outcome(Err("AlreadyActive", "AlreadyActive"), t, NoKey)
    ELSE Outcome(Ok, [is_active |-> TRUE, round |-> t.round,
                      total_rounds |-> total_rounds, fee_payer |-> fee_payer], NoKey)

start(t, total_rounds, fee_payer) ==
    IF t.is_active THEN Outcome(Err("AlreadyActive", "AlreadyActive"), t, NoKey)
    ELSE Outcome(Ok, [is_active |-> TRUE, round |-> 0,
                      total_rounds |-> total_rounds, fee_payer |-> fee_payer], NoKey)

\* advance that goes on after the last round
advance_past_total(t) ==
    IF ~t.is_active THEN Outcome(Err("NotActive", "NotActive"), t, NoKey)
    ELSE Outcome(Ok, [t EXCEPT !.round = @ + 1], NoKey)

\* advance that does not look at is_active
advance_idle(t) ==
    IF t.round = t.total_rounds
    THEN Outcome(Err("AlreadyComplete", "AlreadyComplete"), t, NoKey)
    ELSE Outcome(Ok, [t EXCEPT !.round = @ + 1], NoKey)

\* advance that refuses the last round
advance_refuses_last(t) ==
    IF ~t.is_active THEN Outcome(Err("NotActive", "NotActive"), t, NoKey)
    ELSE IF t.round + 1 >= t.total_rounds
         THEN Outcome(Err("AlreadyComplete", "AlreadyComplete"), t, NoKey)
         ELSE Outcome(Ok, [t EXCEPT !.round = @ + 1], NoKey)

advance(t) ==
    IF ~t.is_active THEN Outcome(Err("NotActive", "NotActive"), t, NoKey)
    ELSE IF t.round = t.total_rounds
         THEN Outcome(Err("AlreadyComplete", "AlreadyComplete"), t, NoKey)
         ELSE Outcome(Ok, [t EXCEPT !.round = @ + 1], NoKey)

is_complete(t) == t.round = t.total_rounds

\* finalize that asks for completeness only
finalize_complete_only(t) ==
    IF ~is_complete(t) THEN Outcome(Err("NotComplete", "NotComplete"), t, NoKey)
    ELSE Outcome(Ok, [t EXCEPT !.is_active = FALSE], t.fee_payer)

\* finalize: of the computation in progress (is_active), once it is complete
finalize(t) ==
    IF ~t.is_active THEN Outcome(Err("NotActive", "NotActive"), t, NoKey)
    ELSE IF ~is_complete(t) THEN Outcome(Err("NotComplete", "NotComplete"), t, NoKey)
         ELSE Outcome(Ok, [t EXCEPT !.is_active = FALSE], t.fee_payer)

InitTracker ==
    /\ COUNT = StorageAccount_COUNT
    /\ account = EmptyAccount(COUNT)
    /\ units = CanonicalLedger
    /\ pdas = <<>>
    /\ writes = 0
    /\ call = NoCall
    /\ result = Ok
    /\ supplied = <<>>
    /\ array = NoArray
    /\ shadow = <<>>
    /\ tracker = IdleTracker
    /\ hist = NoHist

notTrackerVars == <<COUNT, account, units, pdas, writes, supplied, arrayVars>>

Start(total_rounds, fee_payer) ==
    LET r == start(tracker, total_rounds, fee_payer)
    IN /\ Len(hist.started) < MaxStarts \/ tracker.is_active
       /\ tracker' = r.tracker
       /\ result' = r.res
       /\ call' = [op |-> "start", total_rounds |-> total_rounds, fee_payer |-> fee_payer]
       /\ hist' = IF r.res.ok
                  THEN [hist EXCEPT !.advances = 0, !.started = Append(@, fee_payer)]
                  ELSE hist
       /\ UNCHANGED notTrackerVars

Advance ==
    LET r == advance(tracker)
    IN /\ tracker' = r.tracker
       /\ result' = r.res
       /\ call' = [op |-> "advance"]
       /\ hist' = IF r.res.ok THEN [hist EXCEPT !.advances = @ + 1] ELSE hist
       /\ UNCHANGED notTrackerVars

IsComplete ==
    /\ call' = [op |-> "is_complete"]
    /\ result' = [ok |-> TRUE, err |-> "Ok", check |-> "none", value |-> is_complete(tracker)]
    /\ UNCHANGED <<tracker, hist, notTrackerVars>>

Finalize ==
    LET r == finalize(tracker)
    IN /\ tracker' = r.tracker
       /\ result' = r.res
       /\ call' = [op |-> "finalize"]
       /\ hist' = IF r.reimburse # NoKey
                  THEN [hist EXCEPT !.reimbursed = Append(@, r.reimburse)]
                  ELSE hist
       /\ UNCHANGED notTrackerVars

NextTracker ==
    \/ \E total_rounds \in 0..MaxRounds, fee_payer \in Payers : Start(total_rounds, fee_payer)
    \/ Advance
    \/ IsComplete
    \/ Finalize

SpecTracker == InitTracker /\ [][NextTracker]_vars

\* the tracker with its advance and finalize invocations weakly fair: a
\* computation in progress is not abandoned by the clients that drive it
SpecTrackerLive == SpecTracker /\ WF_vars(Advance) /\ WF_vars(Finalize)


(***************************************************************************)
(* One record used by several multi-round operations.  The record has no   *)
(* field that names the operation that started the computation             *)
(* (program_account.rs, 86-98), so the operations take no caller; the      *)
(* caller and the owner are history.                                       *)
(***************************************************************************)
Operations == 1..MaxOperation

StartBy(operation, total_rounds, fee_payer) ==
    LET r == start(tracker, total_rounds, fee_payer)
    IN /\ Len(hist.started) < MaxStarts \/ tracker.is_active
       /\ tracker' = r.tracker
       /\ result' = r.res
       /\ call' = [op |-> "start", by |-> operation,
                   total_rounds |-> total_rounds, fee_payer |-> fee_payer]
       /\ hist' = IF r.res.ok
                  THEN [hist EXCEPT !.advances = 0, !.started = Append(@, fee_payer),
                                    !.owner = operation]
                  ELSE hist
       /\ UNCHANGED notTrackerVars

AdvanceBy(operation) ==
    LET r == advance(tracker)
    IN /\ tracker' = r.tracker
       /\ result' = r.res
       /\ call' = [op |-> "advance", by |-> operation]
       /\ hist' = IF r.res.ok THEN [hist EXCEPT !.advances = @ + 1] ELSE hist
       /\ UNCHANGED notTrackerVars

NextShared ==
    \/ \E operation \in Operations, total_rounds \in 0..MaxRounds, fee_payer \in Payers :
          StartBy(operation, total_rounds, fee_payer)
    \/ \E operation \in Operations : AdvanceBy(operation)
    \/ Finalize

SpecShared == InitTracker /\ [][NextShared]_vars

IsBind == call.op = "setup_storage_account"
\* the step is a bind invocation
StepIsBind == call'.op = "setup_storage_account"
\* ... whose children all fit their position, are owned by the program and rent exempt
StepValid == call'.sizes_fit /\ call'.owned_exempt

(***************************************************************************)
(* C1.  For a container and any sequence of bind invocations at most one   *)
(* succeeds: a successful bind takes pda_initialized from false to true,   *)
(* the first bind with K distinct valid children is such a bind, every     *)
(* bind on an initialized container fails (rejected by the pda_initialized *)
(* guard when its children pass validation), and pda_initialized never     *)
(* returns to false.                                                       *)
(***************************************************************************)
C1_BindExactlyOnce ==
    [][/\ account.pda_initialized => account'.pda_initialized
       /\ StepIsBind =>
             /\ result'.ok => ~account.pda_initialized /\ account'.pda_initialized
             /\ account.pda_initialized => ~result'.ok
             /\ account.pda_initialized /\ StepValid => result'.check = "initialized"
             /\ (~account.pda_initialized /\ ~call'.repeated /\ StepValid)
                   => result'.ok /\ account'.pda_initialized]_vars

\* C1 without its demand that a bind with K distinct valid children succeeds
C1_AtMostOnce ==
    [][/\ account.pda_initialized => account'.pda_initialized
       /\ StepIsBind =>
             /\ result'.ok => ~account.pda_initialized /\ account'.pda_initialized
             /\ account.pda_initialized => ~result'.ok
             /\ account.pda_initialized /\ StepValid => result'.check = "initialized"]_vars

(***************************************************************************)
(* C2.  In every reachable state of a container of any type T,             *)
(* pda_initialized implies that the T::COUNT recorded child addresses are  *)
(* pairwise distinct.                                                      *)
(***************************************************************************)
C2_BoundChildrenDistinct ==
    account.pda_initialized => Injective(account.pubkeys)

(***************************************************************************)
(* C3.  A bind invocation in which a child address is repeated fails, and  *)
(* leaves the container as it was: pda_initialized and the recorded        *)
(* child-address table are unchanged.                                      *)
(***************************************************************************)
C3_DuplicateBindChangesNothing ==
    [][(StepIsBind /\ call'.repeated) =>
          /\ ~result'.ok
          /\ account'.pda_initialized = account.pda_initialized
          /\ account'.pubkeys = account.pubkeys]_vars

(***************************************************************************)
(* C4.  A successful bind records exactly the K supplied addresses,        *)
(* position by position, and once the container is initialized no          *)
(* operation (further bind attempts, writes to child contents) changes a   *)
(* recorded address.                                                       *)
(***************************************************************************)
C4_RecordedVerbatimAndFrozen ==
    [][/\ (StepIsBind /\ result'.ok) =>
             /\ DOMAIN supplied' = 0..(COUNT - 1)
             /\ \A i \in 0..(COUNT - 1) : account'.pubkeys[i] = supplied'[i]
       /\ account.pda_initialized =>
             account'.pubkeys = account.pubkeys /\ supplied' = supplied]_vars

\* a bound container on which a child was written and a further bind was then refused
C4_Witness ==
    /\ account.pda_initialized
    /\ account.pubkeys = supplied
    /\ writes > 0
    /\ IsBind /\ ~result.ok /\ result.check = "initialized"

(***************************************************************************)
(* C5.  verify_heterogen_sub_accounts passes the size check iff every      *)
(* child but the last has capacity INTERMEDIARY_ACCOUNT_SIZE and the last  *)
(* has capacity LAST_ACCOUNT_SIZE: it never succeeds with a child of       *)
(* another capacity, never rejects for size when all capacities fit, and   *)
(* a capacity that does not fit, the children passing every other check,   *)
(* is rejected by the size guard.                                          *)
(***************************************************************************)
C5_HeterogenSizes ==
    call.op = "verify_heterogen_sub_accounts" =>
        /\ result.ok => call.sizes_fit
        /\ result.check = "size" => ~call.sizes_fit
        /\ (~call.sizes_fit /\ call.rest_passes) => (~result.ok /\ result.check = "size")
        /\ (call.sizes_fit /\ call.rest_passes) => result.ok

\* only a capacity is wrong, and the size guard rejects
C5_Witness ==
    /\ call.op = "verify_heterogen_sub_accounts"
    /\ ~call.sizes_fit /\ call.rest_passes
    /\ ~result.ok /\ result.check = "size"

(***************************************************************************)
(* C6.  For an account that passes the size, rent and ownership checks,    *)
(* verify_extern_data_account fails iff check_zeroness is set and some     *)
(* byte of the account is not zero.                                        *)
(***************************************************************************)
C6_ZeroCheck ==
    (call.op = "verify_extern_data_account" /\ call.rest_passes) =>
        (~result.ok <=> (call.check_zeroness /\ call.non_zero))

\* a non-zeroed account, valid otherwise, is rejected under check_zeroness
C6_Witness ==
    /\ call.op = "verify_extern_data_account"
    /\ call.rest_passes /\ call.non_zero /\ call.check_zeroness
    /\ ~result.ok /\ result.check = "zero"

(***************************************************************************)
(* C7.  A container becomes initialized only by a bind all of whose        *)
(* children are owned by the program and hold the exemption balance of     *)
(* their size; a bind with a foreign-owned or underfunded child fails and  *)
(* leaves pda_initialized as it was.                                       *)
(***************************************************************************)
C7_OnlyOwnedExemptChildren ==
    [][StepIsBind =>
          /\ (~account.pda_initialized /\ account'.pda_initialized) => call'.owned_exempt
          /\ ~call'.owned_exempt =>
                ~result'.ok /\ account'.pda_initialized = account.pda_initialized]_vars

\* a bind on a fresh container refused for a foreign owner or a missing balance
C7_Witness ==
    /\ IsBind /\ ~call.owned_exempt /\ call.sizes_fit
    /\ ~result.ok /\ result.check \in {"owner", "rent"}
    /\ ~account.pda_initialized

StepIsOpen ==
    call'.op \in {"open_single_instance_account", "open_multi_instance_account"}
IsOpen ==
    call.op \in {"open_single_instance_account", "open_multi_instance_account"}

(***************************************************************************)
(* C9.  An open invocation, single or multi instance, whose account is not *)
(* the one derived from the kind's seed and the optional offset fails by   *)
(* the key guard and creates nothing: the accounts are the same before     *)
(* and after.                                                              *)
(***************************************************************************)
C9_MismatchCreatesNothing ==
    [][(StepIsOpen /\ ~call'.matches) =>
          /\ ~result'.ok
          /\ result'.check = "key"
          /\ pdas' = pdas]_vars

\* an open refused for its key while the derived address is still free
C9_Witness ==
    /\ IsOpen /\ ~call.matches /\ ~call.existed
    /\ ~result.ok /\ result.check = "key"
    /\ \E k \in Keys : Exists(pdas, k)

(***************************************************************************)
(* C10.  For every kind and offset at most one open succeeds: an open      *)
(* succeeds only when the derived address was free, an account once        *)
(* created stays, and every open for a kind and offset whose derived       *)
(* address is in use fails (as already existing when handed the derived    *)
(* account) and leaves the size and contents of every account unchanged.   *)
(***************************************************************************)
C10_OpenAtMostOnce ==
    [][/\ \A k \in Keys : Exists(pdas, k) => Exists(pdas', k)
       /\ StepIsOpen =>
             /\ result'.ok => (~call'.existed /\ call'.matches)
             /\ call'.existed => (~result'.ok /\ pdas' = pdas)
             /\ (call'.existed /\ call'.matches) => result'.check = "exists"]_vars

\* a second open of an account that was written to since it was opened
C10_Witness ==
    /\ IsOpen /\ call.matches /\ call.existed
    /\ ~result.ok /\ result.check = "exists"
    /\ writes > 0
    /\ \E k \in Keys : Exists(pdas, k) /\ ~is_zero(pdas[k].data)

(***************************************************************************)
(* C11.  For every index i in [0, SIZE), account_and_local_index(i) =      *)
(* (shard, local) satisfies shard * MAX_VALUES_PER_ACCOUNT + local = i,    *)
(* shard < ACCOUNTS_COUNT and local < MAX_VALUES_PER_ACCOUNT, and two      *)
(* different indices never map to the same pair.                           *)
(***************************************************************************)
C11_IndexMapping ==
    LET m == ValuesPerAccount(array)
    IN /\ call.op = "account_and_local_index" =>
             /\ result.pair[1] * m + result.pair[2] = call.index
             /\ result.pair[1] < AccountsCount(array)
             /\ result.pair[1] \in DOMAIN array.accounts
             /\ result.pair[2] >= 0 /\ result.pair[2] < m
       /\ \A i, j \in 0..(array.SIZE - 1) :
             i # j => account_and_local_index(m, i) # account_and_local_index(m, j)

\* an index that lies in a later account, not at its start
C11_Witness ==
    /\ call.op = "account_and_local_index"
    /\ result.pair[1] > 0 /\ result.pair[2] > 0

(***************************************************************************)
(* C12.  For every valid index i and value v, get(i) after set(i, v),      *)
(* with any number of set(j, w), j # i, in between, returns v.             *)
(***************************************************************************)
C12_GetAfterSet ==
    (call.op = "get" /\ shadow[call.index] # NoValue) =>
        result.value = shadow[call.index]

\* a value with every byte in use is read back, another element having been set too
C12_Witness ==
    /\ call.op = "get"
    /\ shadow[call.index] = Base^array.W - 1
    /\ array.W > 1
    /\ \E j \in DOMAIN shadow : j # call.index /\ shadow[j] \notin {NoValue, 0}
    /\ result.value = shadow[call.index]

(***************************************************************************)
(* C13.  set(i, v) for a valid index changes only the W bytes of element i *)
(* in its account: every other element reads the same before and after,    *)
(* every byte outside [local*W, (local+1)*W) of that account and every     *)
(* byte of the other accounts is unchanged, and the range lies within the  *)
(* account, which is no larger than the account size limit.                *)
(***************************************************************************)
C13_SetFrame ==
    [][call'.op = "set" =>
         LET i == call'.index
             m == ValuesPerAccount(array)
             shard == i \div m
             local == i % m
         IN /\ DOMAIN array'.accounts = DOMAIN array.accounts
            /\ \A j \in 0..(array.SIZE - 1) : j # i => get(array', j) = get(array, j)
            /\ \A a \in DOMAIN array.accounts :
                  /\ Len(array'.accounts[a]) = Len(array.accounts[a])
                  /\ \A k \in 1..Len(array.accounts[a]) :
                        (a # shard \/ k <= local * array.W \/ k > (local + 1) * array.W)
                            => array'.accounts[a][k] = array.accounts[a][k]
            /\ (local + 1) * array.W <= Len(array.accounts[shard])
            /\ Len(array.accounts[shard]) <= array.MAX]_vars

\* an element is set next to one that holds a value, in an account of several elements
C13_Witness ==
    /\ call.op = "set"
    /\ get(array, call.index) = call.value /\ call.value # 0
    /\ \E j \in 0..(array.SIZE - 1) :
          /\ j # call.index
          /\ j \div ValuesPerAccount(array) = call.index \div ValuesPerAccount(array)
          /\ shadow[j] \notin {NoValue, 0}
          /\ get(array, j) = shadow[j]

RECURSIVE ElementsBytes(_, _, _)
\* the serialized elements start_index, ..., end_index - 1, in index order
ElementsBytes(arr, start_index, end_index) ==
    IF start_index >= end_index THEN <<>>
    ELSE serialize(get(arr, start_index), arr.W) \o ElementsBytes(arr, start_index + 1, end_index)

(***************************************************************************)
(* C14.  For all 0 <= start <= end <= SIZE, also when the range starts in  *)
(* an account other than the first or spans several accounts, the range    *)
(* read returns exactly (end - start) * W bytes: the serialized elements   *)
(* start, ..., end - 1 in index order.                                     *)
(***************************************************************************)
C14_RangeIsTheElements ==
    call.op = "get_mut_array_slice" =>
        /\ result.ok
        /\ Len(result.bytes) = (call.end_index - call.start_index) * array.W
        /\ result.bytes = ElementsBytes(array, call.start_index, call.end_index)

(***************************************************************************)
(* C15.  MAX_VALUES_PER_ACCOUNT = floor(MAX / W) and ACCOUNTS_COUNT =      *)
(* ceil(SIZE / MAX_VALUES_PER_ACCOUNT), the smallest n with                *)
(* n * MAX_VALUES_PER_ACCOUNT >= SIZE.  SIZE 20,000 and W 32: the account  *)
(* size 10,000,000 gives one account; 400,000 gives 12,500 elements to the *)
(* account and two accounts, element 12,499 at (0, 12,499) and element     *)
(* 12,500 at (1, 0).                                                       *)
(***************************************************************************)
C15_AccountsCount ==
    LET m == ValuesPerAccount(array)
        n == AccountsCount(array)
    IN /\ m * array.W <= array.MAX /\ array.MAX < (m + 1) * array.W
       /\ n * m >= array.SIZE
       /\ \A k \in 0..(n - 1) : k * m < array.SIZE
       /\ array.SIZE > 0 => DOMAIN array.accounts = 0..(n - 1)
       /\ call.op = "array_accounts_pdas" =>
             /\ DOMAIN result.pdas = 0..(n - 1)
             /\ \A a, b \in DOMAIN result.pdas : a # b => result.pdas[a] # result.pdas[b]
       /\ ACCOUNTS_COUNT(20000, MAX_VALUES_PER_ACCOUNT(MAX_ACCOUNT_SIZE, 32)) = 1
       /\ MAX_VALUES_PER_ACCOUNT(400000, 32) = 12500
       /\ ACCOUNTS_COUNT(20000, MAX_VALUES_PER_ACCOUNT(400000, 32)) = 2
       /\ account_and_local_index(12500, 12499) = <<0, 12499>>
       /\ account_and_local_index(12500, 12500) = <<1, 0>>

\* an array that fills two accounts of two elements exactly, none to spare
C15_Witness ==
    /\ call.op = "array_accounts_pdas"
    /\ AccountsCount(array) = 2
    /\ ValuesPerAccount(array) = 2
    /\ array.SIZE % ValuesPerAccount(array) = 0
    /\ DOMAIN array.accounts = 0..1

(***************************************************************************)
(* C16.  In every reachable state of the computation record, active or     *)
(* not, round <= total_rounds.                                             *)
(***************************************************************************)
C16_RoundWithinTotal == tracker.round <= tracker.total_rounds

\* an advance was refused on a record that is at its last round
C16_Witness ==
    /\ call.op = "advance" /\ result.err = "AlreadyComplete"
    /\ tracker.is_active
    /\ tracker.round = tracker.total_rounds /\ tracker.round > 0

(***************************************************************************)
(* C17.  A start on an active record fails with AlreadyActive and leaves   *)
(* round, total_rounds and fee_payer as they were; whatever the order of   *)
(* the starts of several callers, exactly one start succeeds between two   *)
(* idle periods; a successful start makes the record active with round 0   *)
(* and records the total_rounds and the fee_payer it was given.            *)
(***************************************************************************)
C17_StartOnce ==
    [][ /\ (call'.op = "start" /\ tracker.is_active) =>
              /\ ~result'.ok /\ result'.err = "AlreadyActive"
              /\ tracker' = tracker
              /\ hist'.started = hist.started
        /\ (call'.op = "start" /\ result'.ok) =>
              /\ ~tracker.is_active
              /\ tracker' = [is_active |-> TRUE, round |-> 0,
                             total_rounds |-> call'.total_rounds,
                             fee_payer |-> call'.fee_payer]
        /\ (call'.op = "start" /\ ~tracker.is_active) => result'.ok
        /\ tracker'.is_active <=> (Len(hist'.started) = Len(hist'.reimbursed) + 1)
        /\ ~tracker'.is_active <=> (Len(hist'.started) = Len(hist'.reimbursed))
      ]_vars

\* a second caller's start was refused while the first one's computation,
\* already advanced, is in progress
C17_Witness ==
    /\ call.op = "start" /\ result.err = "AlreadyActive"
    /\ tracker.is_active /\ tracker.round > 0
    /\ call.fee_payer # tracker.fee_payer
    /\ call.total_rounds # tracker.total_rounds
    /\ Len(hist.started) = 2

(***************************************************************************)
(* C18.  An advance fails with NotActive on an idle record and with        *)
(* AlreadyComplete at round = total_rounds, and changes nothing in either  *)
(* case; otherwise it adds exactly 1 to round.  While the record is active *)
(* round never decreases and is the number of successful advances since    *)
(* the last successful start.                                              *)
(***************************************************************************)
C18_AdvanceCounts ==
    [][ /\ (call'.op = "advance" /\ ~tracker.is_active) =>
              /\ result'.err = "NotActive" /\ tracker' = tracker
        /\ (call'.op = "advance" /\ tracker.is_active
                /\ tracker.round = tracker.total_rounds) =>
              /\ result'.err = "AlreadyComplete" /\ tracker' = tracker
        /\ (call'.op = "advance" /\ tracker.is_active
                /\ tracker.round # tracker.total_rounds) =>
              /\ result'.ok
              /\ tracker' = [tracker EXCEPT !.round = tracker.round + 1]
        /\ (tracker.is_active /\ tracker'.is_active) => tracker'.round >= tracker.round
        /\ tracker'.is_active => tracker'.round = hist'.advances
      ]_vars

\* the second computation of a behaviour has advanced twice
C18_Witness ==
    /\ call.op = "advance" /\ result.ok
    /\ tracker.is_active /\ tracker.round = 2 /\ hist.advances = 2
    /\ Len(hist.started) = 2 /\ Len(hist.reimbursed) = 1

C20_Lifecycle ==
    [][ /\ (call'.op = "is_complete" /\ tracker.is_active) =>
              (result'.value <=> hist.advances = tracker.total_rounds)
        /\ (call'.op = "advance" /\ tracker.is_active
                /\ hist.advances = tracker.total_rounds) =>
              /\ result'.err = "AlreadyComplete"
              /\ hist'.advances = hist.advances
        /\ (call'.op = "start" /\ Len(hist.started) > Len(hist.reimbursed)) =>
              /\ result'.err = "AlreadyActive"
              /\ tracker' = tracker
        /\ (call'.op = "start" /\ call.op = "finalize" /\ result.ok) =>
              /\ result'.ok
              /\ tracker'.is_active /\ tracker'.round = 0
              /\ tracker'.total_rounds = call'.total_rounds
      ]_vars

\* a new computation, of the largest number of rounds, was started after
\* the finalize of the one before
C20_Witness ==
    /\ call.op = "start" /\ result.ok
    /\ Len(hist.started) = 2 /\ Len(hist.reimbursed) = 1
    /\ tracker.is_active /\ tracker.round = 0 /\ tracker.total_rounds = MaxRounds
    /\ hist.advances = 0

(***************************************************************************)
(* C21.  An advance issued against a record by an operation other than the *)
(* one that owns the record is rejected by the Active/Idle state check: it *)
(* never increments the round of a computation it does not belong to, in   *)
(* any interleaving with the invocations of the owner.                     *)
(***************************************************************************)
C21_ForeignAdvanceRejected ==
    [][ (call'.op = "advance" /\ call'.by # hist.owner) =>
            /\ ~result'.ok
            /\ tracker'.round = tracker.round
      ]_vars

(***************************************************************************)
(* C21, amended.  The state check rejects an advance exactly when the      *)
(* record is idle (NotActive) or at round = total_rounds                   *)
(* (AlreadyComplete), whoever issues it: an advance of another operation   *)
(* against an active record that is not complete succeeds and adds 1 to    *)
(* the round of the owner's computation.                                   *)
(***************************************************************************)
C21_StateCheckOnly ==
    [][ call'.op = "advance" =>
            /\ result'.ok <=> (tracker.is_active /\ tracker.round < tracker.total_rounds)
            /\ result'.ok => tracker'.round = tracker.round + 1
            /\ ~result'.ok =>
                  /\ tracker' = tracker
                  /\ result'.err = IF tracker.is_active THEN "AlreadyComplete" ELSE "NotActive"
      ]_vars

\* an operation that did not start the computation advanced it
C21_Witness ==
    /\ call.op = "advance" /\ result.ok
    /\ hist.owner # 0 /\ call.by # hist.owner
    /\ tracker.is_active /\ tracker.round > 0

IsValidate == call.op \in {"verify_extern_data_account", "verify_heterogen_sub_accounts"}

(***************************************************************************)
(* C22.  A validation changes nothing: whether it succeeds or fails, the   *)
(* bytes, the capacity, the balance and the owner of every account, and    *)
(* the state of the container, are after the call what they were before.   *)
(***************************************************************************)
C22_ValidateChangesNothing ==
    [][ IsValidate' =>
            /\ units' = units
            /\ account' = account
            /\ COUNT' = COUNT
            /\ pdas' = pdas
      ]_vars

\* a zero check was made on an account of the right size that holds a
\* non-zero byte, and refused it
C22_Witness ==
    /\ call.op = "verify_extern_data_account"
    /\ call.check_zeroness /\ call.non_zero /\ call.rest_passes
    /\ ~result.ok /\ result.check = "zero"

(***************************************************************************)
(* C23.  setup_storage_account validates all the sub-accounts before any   *)
(* step of the binding: when one of them fails the validation no address   *)
(* is recorded and the container stays uninitialized, so that a container  *)
(* never becomes initialized with a sub-account that failed the validation *)
(* of that invocation.                                                     *)
(***************************************************************************)
C23_ValidatedBeforeBound ==
    [][StepIsBind =>
          /\ ~(call'.sizes_fit /\ call'.owned_exempt) =>
                /\ ~result'.ok
                /\ result'.check \in {"size", "rent", "owner"}
                /\ account' = account
          /\ (~account.pda_initialized /\ account'.pda_initialized) =>
                /\ call'.sizes_fit /\ call'.owned_exempt
                /\ \A i \in 0..(COUNT - 1) :
                      verify_extern_data_account(units[account'.pubkeys[i]],
                                                 expected_size(COUNT, i), FALSE).ok
      ]_vars

\* distinct addresses, one of them of the wrong size, were refused on a
\* fresh container, which recorded none of them
C23_Witness ==
    /\ IsBind /\ ~call.sizes_fit /\ ~call.repeated /\ call.owned_exempt
    /\ ~result.ok /\ result.check = "size"
    /\ account = EmptyAccount(COUNT)

(***************************************************************************)
(* C24.  get_full_array returns the serialized bytes of all the SIZE       *)
(* elements of the array, 0 to SIZE - 1 inclusive, in index order (SIZE *  *)
(* W bytes), for every layout, also when SIZE is a multiple of             *)
(* MAX_VALUES_PER_ACCOUNT.                                                 *)
(***************************************************************************)
C24_FullArrayIsAllElements ==
    call.op = "get_full_array" =>
        /\ result.ok
        /\ Len(result.bytes) = array.SIZE * array.W
        /\ result.bytes = ElementsBytes(array, 0, array.SIZE)

Finalized == call.op = "finalize" /\ result.ok /\ ~tracker.is_active

(***************************************************************************)
(* C25.  With advance and finalize weakly fair, every computation that was *)
(* started reaches round = total_rounds, is finalized, and leaves the      *)
(* record idle; in no reachable active state do both advance and finalize  *)
(* fail.                                                                   *)
(***************************************************************************)
C25_EveryComputationIsFinalized ==
    /\ [](tracker.is_active => (advance(tracker).res.ok \/ finalize(tracker).res.ok))
    /\ (tracker.is_active ~> (tracker.is_active /\ tracker.round = tracker.total_rounds))
    /\ (tracker.is_active ~> Finalized)

\* a computation of the largest number of rounds went through all of them
\* and was finalized
C25_Witness ==
    /\ Finalized
    /\ tracker.total_rounds = MaxRounds
    /\ hist.advances = MaxRounds
    /\ Len(hist.reimbursed) = Len(hist.started)

(***************************************************************************)
(* C26.  init_new_fee_version opens a fee account for the current fee      *)
(* version of the governor only: with any other fee_version it fails with  *)
(* InvalidFeeVersion before it opens an account; and for each fee version  *)
(* at most one fee account is ever opened and set up.                      *)
(***************************************************************************)
C26_OneFeeAccountPerVersion ==
    [][ /\ call'.op = "init_new_fee_version" =>
              /\ ~call'.current =>
                    /\ result'.err = "InvalidFeeVersion"
                    /\ pdas' = pdas
              /\ call'.existed => (~result'.ok /\ pdas' = pdas)
              /\ result'.ok =>
                    /\ call'.current /\ call'.matches /\ ~call'.existed
                    /\ Exists(pdas', FeeKey(call'.fee_version))
                    /\ \A k \in DOMAIN pdas :
                          k # FeeKey(call'.fee_version) => pdas'[k] = pdas[k]
        /\ \A v \in FeeVersions :
              Exists(pdas, FeeKey(v)) => pdas'[FeeKey(v)] = pdas[FeeKey(v)]
      ]_vars

\* a second invocation for a version whose fee account exists was refused,
\* with the accounts of two versions open
C26_Witness ==
    /\ call.op = "init_new_fee_version"
    /\ call.current /\ call.matches /\ call.existed
    /\ ~result.ok
    /\ Cardinality({v \in FeeVersions : Exists(pdas, FeeKey(v))}) = 2

====
